---- MODULE Spec2Model ----
(***************************************************************************)
(* Model of src/app/use_mysql.py: the connection scope get_connection, the *)
(* helpers execute_query / fetch_query / fetch_query_as_dict, and the      *)
(* operations built on them (a caller's scope, insert_sample_data,         *)
(* transaction_example).                                                   *)
(*                                                                         *)
(* The program is single threaded.  One operation runs at a time; pc is    *)
(* its position, exc the exception in flight, result what its caller got.  *)
(*                                                                         *)
(* The database server and the driver (mysql.connector) are the            *)
(* environment.  Their model:                                              *)
(*   - db is the committed data, what any other connection observes;       *)
(*   - a connection holds its uncommitted changes in pend; commit() moves  *)
(*     them into db, rollback() and close() discard them;                  *)
(*   - tx counts the transactions started with start_transaction() and not *)
(*     yet ended; the driver refuses start_transaction() while one is in   *)
(*     progress (ProgrammingError, a subclass of Error);                   *)
(*   - connect(), cursor.execute(), cursor.executemany(), fetchall(),      *)
(*     commit() and start_transaction() may raise Error; rollback(),       *)
(*     close() and cursor.close() are taken to succeed, and an open        *)
(*     connection stays connected until it is closed.                      *)
(***************************************************************************)
EXTENDS Integers, Sequences, FiniteSets, TLC

VARIABLES db, conns, op, pc, exc, result, last, hist, stock, ncalls, nops,
          schema, run, sts, main

vars == <<db, conns, op, pc, exc, result, last, hist, stock, ncalls, nops,
          schema, run, sts, main>>

\* ---- bounds of the model ------------------------------------------------
MaxStock == 1
MaxOrders == 1
MaxOps == 2
MaxBody == 2

\* ---- program constants --------------------------------------------------
\* stock of the first sample product ("Laptop", ..., 50)
SampleStock == 50
\* number of rows of orders_data
SampleOrders == 8
\* number of rows of orders_data with status "cancelled"
SampleCancelled == 1

\* 1: the connection of the running operation; 2 and 3: further connections
\* to the server, taken by get_table_row_count while show_table_statistics
\* holds its own
ConnIds == {1, 2, 3}

\* ---- the data -----------------------------------------------------------
\* hasRow: the products row with id 1 exists; stock: its stock;
\* orders: the number of rows of the orders table; canc: how many of them
\* have status "cancelled".
NoRowDb(n) == [hasRow |-> FALSE, stock |-> 0, orders |-> n, canc |-> 0]

InitDbs ==
  {NoRowDb(n) : n \in 0..MaxOrders}
    \cup {[hasRow |-> TRUE, stock |-> s, orders |-> n, canc |-> 0] :
            s \in 0..MaxStock, n \in 0..MaxOrders}

\* ---- the tables ---------------------------------------------------------
\* a table is absent, has the definition the script gives it, or was there
\* before with another definition
Tables == {"products", "customers", "orders", "products_backup"}

NoTables == [t \in Tables |-> "absent"]

ExampleTables ==
  [t \in Tables |-> IF t = "products_backup" THEN "absent" ELSE "example"]

InitSchemas ==
  {NoTables, ExampleTables, [NoTables EXCEPT !["products"] = "other"]}

\* the tables a statement or query names
TablesOf(s) ==
  CASE s \in {"decStock", "selStock", "insProducts", "selProducts",
              "describeProducts", "updPrices"} -> {"products"}
    [] s = "insCustomers" -> {"customers"}
    [] s \in {"insOrder", "insOrders", "selOrders", "delCancelled"} ->
         {"orders"}
    [] s = "selJoin" -> {"orders", "customers", "products"}
    [] s = "selCustomerOrders" -> {"customers", "orders"}
    [] s = "copyProducts" -> {"products_backup", "products"}
    [] OTHER -> {}

\* the server refuses a statement on a table that does not exist
Refused(sch, s) == \E t \in TablesOf(s) : sch[t] = "absent"

\* uncommitted changes of a connection: stock decrements, inserted orders,
\* cancelled orders among them, whether the sample products were inserted
\* and whether the cancelled orders were deleted.
NoPend == [dec |-> 0, ins |-> 0, cins |-> 0, mk |-> FALSE, del |-> FALSE]

\* what a connection with uncommitted changes p sees of committed data d
View(d, p) ==
  LET has == d.hasRow \/ p.mk
      base == IF d.hasRow THEN d.stock ELSE IF p.mk THEN SampleStock ELSE 0
  IN [hasRow |-> has,
      stock |-> IF has THEN base - p.dec ELSE 0,
      orders |-> d.orders + p.ins
                  - (IF p.del THEN d.canc + p.cins ELSE 0),
      canc |-> IF p.del THEN 0 ELSE d.canc + p.cins]

\* ---- the driver's connection object --------------------------------------
ClosedConn ==
  [state |-> "closed", tx |-> 0, cursors |-> 0, pend |-> NoPend, log |-> <<>>]

Logged(cn, call) == [cn EXCEPT !.log = Append(@, call)]

\* mysql.connector.connect(**config) succeeded: a new connection object
Connected == [ClosedConn EXCEPT !.state = "open", !.log = <<"connect">>]

\* connection.is_connected()
is_connected(cn) == cn.state = "open"

\* connection.cursor()
Cursor(cn) == Logged([cn EXCEPT !.cursors = @ + 1], "cursor")

\* cursor.close()
CursorClose(cn) == Logged([cn EXCEPT !.cursors = @ - 1], "cursor.close")

\* connection.commit(): the uncommitted changes become the committed data
CommitDb(d, cn) == View(d, cn.pend)

CommitConn(cn) == Logged([cn EXCEPT !.tx = 0, !.pend = NoPend], "commit")

\* connection.rollback(): the uncommitted changes are discarded
Rollback(cn) == Logged([cn EXCEPT !.tx = 0, !.pend = NoPend], "rollback")

\* connection.close(): the server discards what was not committed
Close(cn) ==
  Logged([cn EXCEPT !.state = "closed", !.tx = 0, !.pend = NoPend], "close")

\* a driver call that raised Error
Raised(cn, call) == Logged(cn, call)

\* the statements the operations send through cursor.execute
Stmts == {"decStock", "insOrder"}

\* effect of a successful statement on the connection's uncommitted changes
Effect(d, p, s) ==
  CASE s = "decStock" ->
         IF View(d, p).hasRow THEN [p EXCEPT !.dec = @ + 1] ELSE p
    [] s = "insOrder" -> [p EXCEPT !.ins = @ + 1]
    [] s = "insProducts" -> [p EXCEPT !.mk = TRUE]
    [] s = "insOrders" ->
         [p EXCEPT !.ins = @ + SampleOrders, !.cins = @ + SampleCancelled]
    [] s = "delCancelled" -> [p EXCEPT !.del = TRUE]
    [] OTHER -> p

\* the result set of a query, as the server sends it
Queries == {"selStock", "selOrders"}

ResultSet(q, v) ==
  CASE q = "selStock" -> IF v.hasRow THEN <<v.stock>> ELSE <<>>
    [] q = "selOrders" -> [i \in 1..v.orders |-> i]
    [] OTHER -> <<>>

\* a row in positional form (cursor()) and in named form (dictionary=True)
TupleRow(x) == <<x>>

DictRow(x) == [col |-> x]

\* (variant: a driver that starts a second transaction over an active one)
StartRefused_Unchecked(cn, fail) == fail

\* connection.start_transaction(): the driver raises ProgrammingError
\* ("Transaction already in progress") while a transaction is active.
StartRefused(cn, fail) == cn.tx > 0 \/ fail

start_transaction(cn, fail) ==
  IF StartRefused(cn, fail) THEN Raised(cn, "start_transaction_err")
  ELSE Logged([cn EXCEPT !.tx = @ + 1], "start_transaction")

\* ---- get_connection ------------------------------------------------------
\* except Error as e: print(...); raise -- the exception in flight goes on
Reraise(e) == e

\* (variant: the finally clause does not close)
Release_NoClose(cn) == cn

\* finally: if connection and connection.is_connected(): connection.close()
Release(cn) == IF is_connected(cn) THEN Close(cn) ELSE cn

\* ---- execute_query -------------------------------------------------------
\* (variant: commit only outside an explicit transaction)
ExecCommit_OutsideTxOnly(d, cn, fail) ==
  IF fail = "commit"
    THEN [db |-> d, conn |-> Raised(cn, "commit_err"), raised |-> TRUE]
    ELSE IF cn.tx > 0
      THEN [db |-> d, conn |-> cn, raised |-> FALSE]
      ELSE [db |-> CommitDb(d, cn), conn |-> CommitConn(cn), raised |-> FALSE]

\* the try body after cursor.execute succeeded: connection.commit()
ExecCommit(d, cn, fail) ==
  IF fail = "commit"
    THEN [db |-> d, conn |-> Raised(cn, "commit_err"), raised |-> TRUE]
    ELSE [db |-> CommitDb(d, cn), conn |-> CommitConn(cn), raised |-> FALSE]

\* (variant: the handler re-raises without rolling back)
ExecOnError_NoRollback(cn) == cn

\* except Error as e: print(...); connection.rollback(); raise
ExecOnError(cn) == Rollback(cn)

\* fail: where the driver raises Error ("none", "execute", "commit")
ExecFails == {"none", "execute", "commit"}

execute_query(d, cn, s, fail) ==
  LET c0 == Cursor(cn)
      c1 == IF fail = "execute" THEN Raised(c0, "execute_err")
            ELSE Logged([c0 EXCEPT !.pend = Effect(d, @, s)], "execute")
      cm == ExecCommit(d, c1, fail)
      ok == fail # "execute" /\ ~cm.raised
      c2 == IF ok THEN cm.conn
            ELSE ExecOnError(IF fail = "execute" THEN c1 ELSE cm.conn)
  IN [db |-> IF ok THEN cm.db ELSE d,
      conn |-> CursorClose(c2),
      outcome |-> IF ok THEN "ok" ELSE "Error",
      ret |-> <<>>]

\* ---- fetch_query, fetch_query_as_dict ------------------------------------
\* fail: where the driver raises Error; k: rows read when fetchall raises
FetchFails == {"none", "execute", "fetchall"}

\* cursor.fetchall(): the rows the cursor has read when it returns or raises
fetchall(rows, fail, k) ==
  IF fail = "fetchall" THEN SubSeq(rows, 1, k) ELSE rows

\* (variant: the rows read so far are returned when fetchall raises)
FetchReturn_Partial(read, fail) ==
  IF fail = "execute" THEN [outcome |-> "Error", rows |-> <<>>]
  ELSE [outcome |-> "ok", rows |-> read]

\* results = cursor.fetchall(); return results / except Error: raise
FetchReturn(read, fail) ==
  IF fail = "none" THEN [outcome |-> "ok", rows |-> read]
  ELSE [outcome |-> "Error", rows |-> <<>>]

\* cursor.execute, cursor.fetchall as far as they get
FetchCalls(cn, fail) ==
  CASE fail = "execute" -> Raised(cn, "execute_err")
    [] fail = "fetchall" -> Raised(Logged(cn, "execute"), "fetchall_err")
    [] OTHER -> Logged(Logged(cn, "execute"), "fetchall")

\* fetch_query for a query whose result set is rows
fetch_rows(d, cn, rows, fail, k) ==
  LET c0 == Cursor(cn)
      got == FetchReturn(fetchall(rows, fail, k), fail)
  IN [db |-> d,
      conn |-> CursorClose(FetchCalls(c0, fail)),
      outcome |-> got.outcome,
      ret |-> [i \in 1..Len(got.rows) |-> TupleRow(got.rows[i])]]

fetch_query(d, cn, q, fail, k) ==
  fetch_rows(d, cn, ResultSet(q, View(d, cn.pend)), fail, k)

fetch_query_as_dict(d, cn, q, fail, k) ==
  LET rows == ResultSet(q, View(d, cn.pend))
      c0 == Cursor(cn)
      got == FetchReturn(fetchall(rows, fail, k), fail)
  IN [db |-> d,
      conn |-> CursorClose(FetchCalls(c0, fail)),
      outcome |-> got.outcome,
      ret |-> [i \in 1..Len(got.rows) |-> DictRow(got.rows[i])]]

\* ---- what is remembered of the last call and of the operation ------------
NoLast ==
  [fn |-> "none", arg |-> "none", outcome |-> "none",
   txBefore |-> 0, txAfter |-> 0, curBefore |-> 0, curAfter |-> 0,
   pendBefore |-> NoPend, pendAfter |-> NoPend,
   dbBefore |-> NoRowDb(0), dbAfter |-> NoRowDb(0),
   calls |-> <<>>, ret |-> <<>>]

Called(fn, arg, d, cn, r) ==
  [fn |-> fn, arg |-> arg, outcome |-> r.outcome,
   txBefore |-> cn.tx, txAfter |-> r.conn.tx,
   curBefore |-> cn.cursors, curAfter |-> r.conn.cursors,
   pendBefore |-> cn.pend, pendAfter |-> r.conn.pend,
   dbBefore |-> d, dbAfter |-> r.db,
   calls |-> SubSeq(r.conn.log, Len(cn.log) + 1, Len(r.conn.log)),
   ret |-> r.ret]

\* failure: the first exception raised inside the operation's body;
\* failed: the statements of the operation that failed; retried: a failed
\* statement was executed again; connectFailed: connect() raised;
\* txAtClose: transactions active when the scope released the connection;
\* db0: the committed data when the operation began.
\* op: the operation; done: the statements of the operation that succeeded.
NoHist ==
  [op |-> "none", failure |-> "none", failed |-> {}, retried |-> FALSE,
   connectFailed |-> FALSE, txAtClose |-> 0, db0 |-> NoRowDb(0), done |-> {}]

Ops ==
  {"scope", "transaction_example", "insert_sample_data",
   "create_example_tables", "show_table_statistics"}

\* after: the operation that ran before this one, when that operation
\* returned normally ("none" otherwise); schema0: the tables when this
\* operation began; refused: the CREATE TABLE statements of this operation
\* that the server refused.
NoRun ==
  [after |-> "none", schema0 |-> NoTables,
   refused |-> {}]

\* show_table_statistics: the rows of SHOW TABLES still to be processed and
\* the connection get_table_row_count holds (0: none)
NoSts == [tables |-> <<>>, conn |-> 0]

\* main: where it is (idle, running, returned, raised), the functions it has
\* called, how many of them it has seen return, and its return value
NoMain == [at |-> "idle", started |-> <<>>, done |-> 0, ret |-> -1]

Init ==
  /\ schema \in InitSchemas
  /\ db \in IF schema = ExampleTables THEN InitDbs ELSE {NoRowDb(0)}
  /\ run = [NoRun EXCEPT !.schema0 = schema]
  /\ sts = NoSts
  /\ main = NoMain
  /\ conns = [c \in ConnIds |-> ClosedConn]
  /\ op = "none"
  /\ pc = "idle"
  /\ exc = "none"
  /\ result = "none"
  /\ last = NoLast
  /\ hist = NoHist
  /\ stock = 0
  /\ ncalls = 0
  /\ nops = 0

\* the caller starts an operation; the connection objects of the operation
\* before it are gone with its local variables
StartOp ==
  /\ op = "none"
  /\ nops < MaxOps
  /\ \E o \in Ops :
       /\ op' = o
       /\ hist' = [NoHist EXCEPT !.op = o, !.db0 = db]
  /\ pc' = "connect"
  /\ exc' = "none"
  /\ result' = "none"
  /\ stock' = 0
  /\ ncalls' = 0
  /\ nops' = nops + 1
  /\ last' = NoLast
  /\ run' = [after |-> IF result = "ok" THEN hist.op ELSE "none",
             schema0 |-> schema, refused |-> {}]
  /\ sts' = NoSts
  /\ conns' = [c \in ConnIds |-> ClosedConn]
  /\ UNCHANGED <<db, schema, main>>

\* the functions main calls, in the order of the source
MainSteps ==
  <<"create_schema_if_not_exists", "show_schemas", "change_schema",
    "show_tables", "create_example_tables", "show_tables", "describe_table",
    "insert_sample_data",
    "simple_select_query", "select_with_where_clause",
    "select_with_aggregation", "select_with_join", "select_with_subquery",
    "parameterized_query",
    "update_data", "delete_data",
    "transaction_example",
    "window_function_example", "common_table_expression",
    "show_table_statistics", "backup_table_data">>

\* the helper calls in the with block of the functions whose body is a
\* straight sequence of helper calls (what they print is left out, and the
\* rows their queries return are not part of the data the model keeps)
Script(fn) ==
  CASE fn = "create_schema_if_not_exists" ->
         <<<<"execute_query", "createDatabase">>>>
    [] fn = "show_schemas" -> <<<<"fetch_query", "showDatabases">>>>
    [] fn = "change_schema" ->
         <<<<"fetch_query", "selDatabase">>, <<"execute_query", "use">>,
           <<"fetch_query", "selDatabase">>>>
    [] fn = "show_tables" -> <<<<"fetch_query", "showTables">>>>
    [] fn = "describe_table" -> <<<<"fetch_query", "describeProducts">>>>
    [] fn = "simple_select_query" ->
         <<<<"fetch_query_as_dict", "selProducts">>>>
    [] fn \in {"select_with_where_clause", "select_with_aggregation",
               "parameterized_query", "window_function_example"} ->
         <<<<"fetch_query", "selProducts">>>>
    [] fn = "select_with_join" -> <<<<"fetch_query_as_dict", "selJoin">>>>
    [] fn \in {"select_with_subquery", "common_table_expression"} ->
         <<<<"fetch_query", "selCustomerOrders">>>>
    [] fn = "update_data" -> <<<<"execute_query", "updPrices">>>>
    [] fn = "delete_data" -> <<<<"execute_query", "delCancelled">>>>
    [] fn = "backup_table_data" ->
         <<<<"execute_query", "createBackup">>,
           <<"execute_query", "copyProducts">>>>
    [] OTHER -> <<>>

\* where the body of each operation's with block begins
BodyStart(o) ==
  CASE o = "transaction_example" -> "te_begin"
    [] o = "insert_sample_data" -> "isd_products"
    [] o = "create_example_tables" -> "cet_products"
    [] o = "show_table_statistics" -> "sts_show"
    [] Script(o) # <<>> -> "script"
    [] OTHER -> "body"

\* with get_connection(...) as conn: connect, then yield
get_connection_enter ==
  /\ pc = "connect"
  /\ \E ok \in BOOLEAN :
       IF ok
         THEN /\ conns' = [conns EXCEPT ![1] = Connected]
              /\ pc' = BodyStart(op)
              /\ UNCHANGED <<op, exc, result, hist>>
         ELSE /\ conns' = [conns EXCEPT ![1] = Release(ClosedConn)]
              /\ pc' = "idle"
              /\ op' = "none"
              /\ exc' = "none"
              /\ result' = Reraise("Error")
              /\ hist' = [hist EXCEPT !.connectFailed = TRUE,
                                      !.failure = "Error"]
  /\ UNCHANGED <<db, last, stock, ncalls, nops>>
  /\ UNCHANGED <<schema, run, sts, main>>

\* the with block is left: except Error / finally of get_connection
get_connection_exit ==
  /\ pc = "exit"
  /\ conns' = [conns EXCEPT ![1] = Release(@)]
  /\ hist' = [hist EXCEPT !.txAtClose = conns[1].tx]
  /\ result' = IF exc = "none" THEN "ok"
               ELSE IF exc = "Error" THEN Reraise(exc) ELSE exc
  /\ exc' = "none"
  /\ op' = "none"
  /\ pc' = "idle"
  /\ UNCHANGED <<db, last, stock, ncalls, nops>>
  /\ UNCHANGED <<schema, run, sts, main>>

\* hist after statement s was executed and did or did not fail
Executed(h, s, failed) ==
  [h EXCEPT !.retried = @ \/ s \in h.failed,
            !.failed = IF failed THEN @ \cup {s} ELSE @,
            !.done = IF failed THEN @ ELSE @ \cup {s},
            !.failure = IF failed /\ @ = "none" THEN "Error" ELSE @]

\* a call of statement s made in the caller's body ended with outcome o:
\* an exception leaves the with block
AfterCall(s, o) ==
  /\ ncalls' = ncalls + 1
  /\ hist' = Executed(hist, s, o # "ok")
  /\ IF o = "ok"
       THEN UNCHANGED <<pc, exc>>
       ELSE /\ pc' = "exit"
            /\ exc' = o
  /\ UNCHANGED <<op, result, stock, nops>>

\* ---- a caller's scope ------------------------------------------------------
\* "with get_connection(...) as conn:" followed by a body that calls the
\* helpers and the connection's transaction methods in any order.  The
\* functions of the script that only use the helpers (update_data,
\* show_schemas, get_table_row_count, ...) are bodies of this kind.
InBody == op = "scope" /\ pc = "body" /\ ncalls < MaxBody

\* the caller's body calls execute_query(conn, s)
ScopeExecute ==
  /\ InBody
  /\ \E s \in Stmts, fail \in ExecFails :
       LET r == execute_query(db, conns[1], s, fail)
       IN /\ (Refused(schema, s) => fail = "execute")
          /\ db' = r.db
          /\ conns' = [conns EXCEPT ![1] = r.conn]
          /\ last' = Called("execute_query", s, db, conns[1], r)
          /\ AfterCall(s, r.outcome)
  /\ UNCHANGED <<schema, run, sts, main>>

\* the caller's body calls fetch_query(conn, q) or fetch_query_as_dict(conn, q)
ScopeFetch ==
  /\ InBody
  /\ \E q \in Queries, fail \in FetchFails, dict \in BOOLEAN :
     \E k \in 0..Len(ResultSet(q, View(db, conns[1].pend))) :
       LET r == IF dict THEN fetch_query_as_dict(db, conns[1], q, fail, k)
                ELSE fetch_query(db, conns[1], q, fail, k)
       IN /\ (fail # "fetchall" => k = 0)
          /\ (Refused(schema, q) => fail = "execute")
          /\ db' = r.db
          /\ conns' = [conns EXCEPT ![1] = r.conn]
          /\ last' = Called(IF dict THEN "fetch_query_as_dict"
                            ELSE "fetch_query", q, db, conns[1], r)
          /\ AfterCall(q, r.outcome)
  /\ UNCHANGED <<schema, run, sts, main>>

\* the caller's body calls conn.start_transaction()
ScopeStartTransaction ==
  /\ InBody
  /\ \E fail \in BOOLEAN :
       LET cn == start_transaction(conns[1], fail)
           r == [db |-> db, conn |-> cn, ret |-> <<>>,
                 outcome |-> IF StartRefused(conns[1], fail) THEN "Error"
                             ELSE "ok"]
       IN /\ conns' = [conns EXCEPT ![1] = cn]
          /\ last' = Called("start_transaction", "none", db, conns[1], r)
          /\ AfterCall("start_transaction", r.outcome)
  /\ UNCHANGED db
  /\ UNCHANGED <<schema, run, sts, main>>

\* the caller's body calls conn.commit()
ScopeCommit ==
  /\ InBody
  /\ \E fail \in BOOLEAN :
       LET r == IF fail
                  THEN [db |-> db, conn |-> Raised(conns[1], "commit_err"),
                        ret |-> <<>>, outcome |-> "Error"]
                  ELSE [db |-> CommitDb(db, conns[1]),
                        conn |-> CommitConn(conns[1]),
                        ret |-> <<>>, outcome |-> "ok"]
       IN /\ db' = r.db
          /\ conns' = [conns EXCEPT ![1] = r.conn]
          /\ last' = Called("commit", "none", db, conns[1], r)
          /\ AfterCall("commit", r.outcome)
  /\ UNCHANGED <<schema, run, sts, main>>

\* the caller's body calls conn.rollback()
ScopeRollback ==
  /\ InBody
  /\ LET r == [db |-> db, conn |-> Rollback(conns[1]), ret |-> <<>>,
               outcome |-> "ok"]
     IN /\ conns' = [conns EXCEPT ![1] = r.conn]
        /\ last' = Called("rollback", "none", db, conns[1], r)
        /\ AfterCall("rollback", r.outcome)
  /\ UNCHANGED db
  /\ UNCHANGED <<schema, run, sts, main>>

\* the caller's body raises an exception that is no driver Error
ScopeRaise ==
  /\ op = "scope" /\ pc = "body"
  /\ pc' = "exit"
  /\ exc' = "Other"
  /\ hist' = [hist EXCEPT !.failure = "Other"]
  /\ UNCHANGED <<db, conns, op, result, last, stock, ncalls, nops>>
  /\ UNCHANGED <<schema, run, sts, main>>

\* the caller's body ends
ScopeDone ==
  /\ op = "scope" /\ pc = "body"
  /\ pc' = "exit"
  /\ UNCHANGED <<db, conns, op, exc, result, last, hist, stock, ncalls, nops>>
  /\ UNCHANGED <<schema, run, sts, main>>

\* ---- transaction_example --------------------------------------------------
\* (variant: each statement of the block is committed as soon as it is done)
TeExecute_AutoCommit(d, cn, s, fail) ==
  IF fail THEN [db |-> d, conn |-> Raised(cn, "execute_err"), raised |-> TRUE]
  ELSE LET c1 == Logged([cn EXCEPT !.pend = Effect(d, @, s)], "execute")
       IN [db |-> CommitDb(d, c1), conn |-> CommitConn(c1), raised |-> FALSE]

\* a statement sent through the block's own cursor: cursor.execute(...)
TeExecute(d, cn, s, fail) ==
  IF fail THEN [db |-> d, conn |-> Raised(cn, "execute_err"), raised |-> TRUE]
  ELSE [db |-> d,
        conn |-> Logged([cn EXCEPT !.pend = Effect(d, @, s)], "execute"),
        raised |-> FALSE]

\* conn.commit() at the end of the block
TeCommit(d, cn, fail) ==
  IF fail THEN [db |-> d, conn |-> Raised(cn, "commit_err"), raised |-> TRUE]
  ELSE [db |-> CommitDb(d, cn), conn |-> CommitConn(cn), raised |-> FALSE]

\* (variant: the stock check lets a stock of 0 through)
TeEnough_OffByOne(s) == s >= 0

\* if stock >= 1: ... else: conn.rollback()
TeEnough(s) == s >= 1

\* except Error as e: conn.rollback(); print(...) -- the error ends here
TeOnError(cn) == Rollback(cn)

TeAfterError(e) == "none"

InTe(p) == op = "transaction_example" /\ pc = p

\* the block's statement step ended: raised or not
TeStep(r, s, next) ==
  /\ db' = r.db
  /\ conns' = [conns EXCEPT ![1] = r.conn]
  /\ hist' = Executed(hist, s, r.raised)
  /\ IF r.raised
       THEN /\ pc' = "te_except"
            /\ exc' = "Error"
       ELSE /\ pc' = next
            /\ exc' = exc
  /\ UNCHANGED <<op, result, last, stock, ncalls, nops>>

\* cursor = conn.cursor(); try: conn.start_transaction()
te_begin ==
  /\ InTe("te_begin")
  /\ \E fail \in BOOLEAN :
       LET c0 == Cursor(conns[1])
       IN TeStep([db |-> db, conn |-> start_transaction(c0, fail),
                  raised |-> StartRefused(c0, fail)],
                 "start_transaction", "te_select")
  /\ UNCHANGED <<schema, run, sts, main>>

\* cursor.execute("SELECT stock ..."); stock = cursor.fetchone()[0]
\* fail: cursor.execute or cursor.fetchone raises Error
te_select ==
  /\ InTe("te_select")
  /\ \E fail \in BOOLEAN :
       LET r == TeExecute(db, conns[1], "selStock", fail)
           rows == ResultSet("selStock", View(db, conns[1].pend))
       IN /\ (Refused(schema, "selStock") => fail)
          /\ db' = r.db
          /\ IF r.raised
               THEN /\ conns' = [conns EXCEPT ![1] = r.conn]
                    /\ pc' = "te_except"
                    /\ exc' = "Error"
                    /\ stock' = stock
                    /\ hist' = Executed(hist, "selStock", TRUE)
               ELSE IF rows = <<>>
                 THEN \* fetchone() is None: None[0] raises TypeError
                      /\ conns' = [conns EXCEPT ![1] = Logged(r.conn, "fetchone")]
                      /\ pc' = "te_finally"
                      /\ exc' = "Other"
                      /\ stock' = stock
                      /\ hist' = [Executed(hist, "selStock", FALSE)
                                    EXCEPT !.failure = "Other"]
                 ELSE /\ conns' = [conns EXCEPT ![1] = Logged(r.conn, "fetchone")]
                      /\ pc' = "te_check"
                      /\ exc' = exc
                      /\ stock' = TupleRow(rows[1])[1]
                      /\ hist' = Executed(hist, "selStock", FALSE)
  /\ UNCHANGED <<op, result, last, ncalls, nops>>
  /\ UNCHANGED <<schema, run, sts, main>>

\* if stock >= 1: (go on) else: conn.rollback(); print(...)
te_check ==
  /\ InTe("te_check")
  /\ IF TeEnough(stock)
       THEN /\ pc' = "te_update"
            /\ UNCHANGED conns
       ELSE /\ pc' = "te_finally"
            /\ conns' = [conns EXCEPT ![1] = Rollback(@)]
  /\ UNCHANGED <<db, op, exc, result, last, hist, stock, ncalls, nops>>
  /\ UNCHANGED <<schema, run, sts, main>>

\* cursor.execute("UPDATE products SET stock = stock - 1 ...")
te_update ==
  /\ InTe("te_update")
  /\ \E fail \in BOOLEAN :
       /\ Refused(schema, "decStock") => fail
       /\ TeStep(TeExecute(db, conns[1], "decStock", fail),
                 "decStock", "te_insert")
  /\ UNCHANGED <<schema, run, sts, main>>

\* cursor.execute("INSERT INTO orders ...")
te_insert ==
  /\ InTe("te_insert")
  /\ \E fail \in BOOLEAN :
       /\ Refused(schema, "insOrder") => fail
       /\ TeStep(TeExecute(db, conns[1], "insOrder", fail),
                 "insOrder", "te_commit")
  /\ UNCHANGED <<schema, run, sts, main>>

\* conn.commit(); print(...)
te_commit ==
  /\ InTe("te_commit")
  /\ \E fail \in BOOLEAN :
       TeStep(TeCommit(db, conns[1], fail), "commit", "te_finally")
  /\ UNCHANGED <<schema, run, sts, main>>

\* except Error as e: conn.rollback(); print(...)
te_except ==
  /\ InTe("te_except")
  /\ conns' = [conns EXCEPT ![1] = TeOnError(@)]
  /\ exc' = TeAfterError(exc)
  /\ pc' = "te_finally"
  /\ UNCHANGED <<db, op, result, last, hist, stock, ncalls, nops>>
  /\ UNCHANGED <<schema, run, sts, main>>

\* finally: cursor.close(); then the with block is left
te_finally ==
  /\ InTe("te_finally")
  /\ conns' = [conns EXCEPT ![1] = CursorClose(@)]
  /\ pc' = "exit"
  /\ UNCHANGED <<db, op, exc, result, last, hist, stock, ncalls, nops>>
  /\ UNCHANGED <<schema, run, sts, main>>

\* ---- insert_sample_data ---------------------------------------------------
\* the three batches, in the order of the source (the customers rows are
\* not part of the data the model keeps)
BatchStmt(p) ==
  CASE p = "isd_products" -> "insProducts"
    [] p = "isd_customers" -> "insCustomers"
    [] OTHER -> "insOrders"

BatchNext(p) ==
  CASE p = "isd_products" -> "isd_customers"
    [] p = "isd_customers" -> "isd_orders"
    [] OTHER -> "exit"

\* except Error as e: print("Note: ..."); conn.rollback() -- no raise
BatchOnError(cn) == Rollback(cn)

\* (variant: the failed batch is run again)
BatchAfterError_Retry(p) == p

\* after the handler the function goes on with the next batch
BatchAfterError(p) == BatchNext(p)

\* cursor = conn.cursor(); try: cursor.executemany(...); conn.commit()
\* except Error: ...; finally: cursor.close()
insert_batch(d, cn, s, fail) ==
  LET c0 == Cursor(cn)
      c1 == IF fail = "execute" THEN Raised(c0, "executemany_err")
            ELSE Logged([c0 EXCEPT !.pend = Effect(d, @, s)], "executemany")
      cm == ExecCommit(d, c1, fail)
      ok == fail # "execute" /\ ~cm.raised
      c2 == IF ok THEN cm.conn
            ELSE BatchOnError(IF fail = "execute" THEN c1 ELSE cm.conn)
  IN [db |-> IF ok THEN cm.db ELSE d,
      conn |-> CursorClose(c2),
      failed |-> ~ok]

isd_batch ==
  /\ op = "insert_sample_data"
  /\ pc \in {"isd_products", "isd_customers", "isd_orders"}
  /\ \E fail \in ExecFails :
       LET s == BatchStmt(pc)
           r == insert_batch(db, conns[1], s, fail)
       IN /\ (Refused(schema, s) => fail = "execute")
          /\ db' = r.db
          /\ conns' = [conns EXCEPT ![1] = r.conn]
          /\ pc' = IF r.failed THEN BatchAfterError(pc) ELSE BatchNext(pc)
          /\ hist' = Executed(hist, s, r.failed)
  /\ UNCHANGED <<op, exc, result, last, stock, ncalls, nops>>
  /\ UNCHANGED <<schema, run, sts, main>>

\* ---- create_example_tables -----------------------------------------------
\* the three CREATE TABLE IF NOT EXISTS statements, in the order of the source
CreateTarget(p) ==
  CASE p = "cet_products" -> "products"
    [] p = "cet_customers" -> "customers"
    [] OTHER -> "orders"

CreateNext(p) ==
  CASE p = "cet_products" -> "cet_customers"
    [] p = "cet_customers" -> "cet_orders"
    [] OTHER -> "exit"

\* FOREIGN KEY (...) REFERENCES customers / products in the orders table;
\* CREATE TABLE ... products_backup LIKE products
References(t) ==
  CASE t = "orders" -> {"customers", "products"}
    [] t = "products_backup" -> {"products"}
    [] OTHER -> {}

\* (variant: CREATE TABLE without IF NOT EXISTS, refused for a table that
\* is already there)
CreateRefused_Exists(sch, t) ==
  \/ sch[t] # "absent"
  \/ \E u \in References(t) : sch[u] = "absent"

\* CREATE TABLE IF NOT EXISTS t: the server refuses the statement only when
\* t is to be created and a table its foreign keys reference is missing
CreateRefused(sch, t) ==
  /\ sch[t] = "absent"
  /\ \E u \in References(t) : sch[u] = "absent"

\* CREATE TABLE IF NOT EXISTS t: a table that is there is left as it is
CreateTable(sch, t) ==
  IF sch[t] = "absent" THEN [sch EXCEPT ![t] = "example"] ELSE sch

\* execute_query(conn, "CREATE TABLE IF NOT EXISTS ..."): the server creates
\* the table when it executes the statement, whatever becomes of the commit
create_table ==
  /\ op = "create_example_tables"
  /\ pc \in {"cet_products", "cet_customers", "cet_orders"}
  /\ \E fail \in ExecFails :
       LET t == CreateTarget(pc)
           no == CreateRefused(schema, t)
           r == execute_query(db, conns[1], "create", fail)
       IN /\ (no => fail = "execute")
          /\ db' = r.db
          /\ conns' = [conns EXCEPT ![1] = r.conn]
          /\ schema' = IF fail = "execute" THEN schema
                        ELSE CreateTable(schema, t)
          /\ run' = IF no THEN [run EXCEPT !.refused = @ \cup {t}] ELSE run
          /\ last' = Called("execute_query", "create", db, conns[1], r)
          /\ hist' = Executed(hist, t, r.outcome # "ok")
          /\ IF r.outcome = "ok"
               THEN pc' = CreateNext(pc) /\ exc' = exc
               ELSE pc' = "exit" /\ exc' = r.outcome
  /\ UNCHANGED <<op, result, stock, ncalls, nops, sts, main>>

\* ---- show_table_statistics, get_table_row_count --------------------------
\* the names SHOW TABLES returns, in the server's (alphabetical) order
TableOrder == <<"customers", "orders", "products", "products_backup">>

ShowTables(sch) == SelectSeq(TableOrder, LAMBDA t : sch[t] # "absent")

\* SELECT COUNT(*) FROM t: one row (the customers rows are not part of the
\* data the model keeps)
RowCount(d, t) ==
  CASE t = "products" -> <<IF d.hasRow THEN 1 ELSE 0>>
    [] t = "orders" -> <<d.orders>>
    [] OTHER -> <<0>>

\* a connection of the server that is not in use
FreeConns == {c \in ConnIds \ {1} : conns[c].state = "closed"}

\* tables = fetch_query(conn, "SHOW TABLES")
sts_show ==
  /\ op = "show_table_statistics"
  /\ pc = "sts_show"
  /\ \E fail \in FetchFails :
     \E k \in 0..Len(ShowTables(schema)) :
       LET r == fetch_rows(db, conns[1], ShowTables(schema), fail, k)
       IN /\ (fail # "fetchall" => k = 0)
          /\ conns' = [conns EXCEPT ![1] = r.conn]
          /\ hist' = Executed(hist, "showTables", r.outcome # "ok")
          /\ sts' = [sts EXCEPT !.tables = r.ret]
          /\ IF r.outcome = "ok"
               THEN pc' = "sts_loop" /\ exc' = exc
               ELSE pc' = "exit" /\ exc' = r.outcome
  /\ UNCHANGED <<db, op, result, last, stock, ncalls, nops, schema, run, main>>

\* for (table_name,) in tables: the loop ends when no row is left
sts_done ==
  /\ op = "show_table_statistics"
  /\ pc = "sts_loop"
  /\ sts.tables = <<>>
  /\ pc' = "exit"
  /\ UNCHANGED <<db, conns, op, exc, result, last, hist, stock, ncalls, nops,
                 schema, run, sts, main>>

\* get_table_row_count(database, table_name): with get_connection(...)
get_table_row_count_enter ==
  /\ op = "show_table_statistics"
  /\ pc = "sts_loop"
  /\ sts.tables # <<>>
  /\ FreeConns # {}
  /\ LET c == CHOOSE x \in FreeConns : \A y \in FreeConns : x <= y
     IN \E ok \in BOOLEAN :
          IF ok
            THEN /\ conns' = [conns EXCEPT ![c] = Connected]
                 /\ sts' = [sts EXCEPT !.conn = c]
                 /\ pc' = "cnt_fetch"
                 /\ UNCHANGED <<exc, hist>>
            ELSE /\ conns' = [conns EXCEPT ![c] = Release(ClosedConn)]
                 /\ sts' = sts
                 /\ pc' = "exit"
                 /\ exc' = Reraise("Error")
                 /\ hist' = Executed(hist, "connect", TRUE)
  /\ UNCHANGED <<db, op, result, last, stock, ncalls, nops, schema, run, main>>

\* result = fetch_query(conn, "SELECT COUNT(*) FROM t"); return result[0][0]
get_table_row_count_fetch ==
  /\ op = "show_table_statistics"
  /\ pc = "cnt_fetch"
  /\ \E fail \in FetchFails :
       LET t == sts.tables[1][1]
           c == sts.conn
           r == fetch_rows(db, conns[c], RowCount(db, t), fail, 0)
       IN /\ conns' = [conns EXCEPT ![c] = r.conn]
          /\ hist' = Executed(hist, t, r.outcome # "ok")
          /\ exc' = IF r.outcome = "ok" THEN exc ELSE r.outcome
          /\ pc' = "cnt_exit"
  /\ UNCHANGED <<db, op, result, last, stock, ncalls, nops, schema, run, sts,
                 main>>

\* get_table_row_count leaves its with block: the count is returned and the
\* loop goes on, or the error leaves the with block of show_table_statistics
get_table_row_count_exit ==
  /\ op = "show_table_statistics"
  /\ pc = "cnt_exit"
  /\ conns' = [conns EXCEPT ![sts.conn] = Release(@)]
  /\ IF exc = "none"
       THEN /\ sts' = [tables |-> Tail(sts.tables), conn |-> 0]
            /\ pc' = "sts_loop"
       ELSE /\ sts' = [sts EXCEPT !.conn = 0]
            /\ pc' = "exit"
  /\ UNCHANGED <<db, op, exc, result, last, hist, stock, ncalls, nops,
                 schema, run, main>>

\* ---- the functions made of helper calls ----------------------------------
\* the next helper call of the function's with block
script_call ==
  /\ pc = "script"
  /\ ncalls < Len(Script(op))
  /\ \E fail \in ExecFails \cup FetchFails :
       LET fn == Script(op)[ncalls + 1][1]
           s == Script(op)[ncalls + 1][2]
           ddl == s = "createBackup"
           r == CASE fn = "execute_query" ->
                       execute_query(db, conns[1], s, fail)
                  [] fn = "fetch_query" ->
                       fetch_query(db, conns[1], s, fail, 0)
                  [] OTHER -> fetch_query_as_dict(db, conns[1], s, fail, 0)
       IN /\ fail \in IF fn = "execute_query" THEN ExecFails ELSE FetchFails
          /\ Refused(schema, s) => fail = "execute"
          /\ (ddl /\ CreateRefused(schema, "products_backup"))
                => fail = "execute"
          /\ db' = r.db
          /\ conns' = [conns EXCEPT ![1] = r.conn]
          /\ schema' = IF ddl /\ fail # "execute"
                         THEN CreateTable(schema, "products_backup")
                         ELSE schema
          /\ last' = Called(fn, s, db, conns[1], r)
          /\ AfterCall(s, r.outcome)
  /\ UNCHANGED <<run, sts, main>>

\* the with block of the function ends
script_done ==
  /\ pc = "script"
  /\ ncalls = Len(Script(op))
  /\ pc' = "exit"
  /\ UNCHANGED <<db, conns, op, exc, result, last, hist, stock, ncalls, nops,
                 schema, run, sts, main>>

\* ---- main -----------------------------------------------------------------
\* exit(main())
main_enter ==
  /\ main.at = "idle"
  /\ op = "none"
  /\ main' = [main EXCEPT !.at = "running"]
  /\ UNCHANGED <<db, conns, op, pc, exc, result, last, hist, stock, ncalls,
                 nops, schema, run, sts>>

\* (variant: every step is run, whatever the step before it raised)
MainGoesOn_Always(r) == TRUE

\* inside the try block the next statement runs when the call before it
\* returned
MainGoesOn(r) == r \in {"none", "ok"}

\* the calls main has seen return, after a call that ended with r
Returned(n, r) == IF r = "ok" THEN n + 1 ELSE n

\* the next function of the try block is called
main_call ==
  /\ main.at = "running"
  /\ op = "none"
  /\ MainGoesOn(result)
  /\ Len(main.started) < Len(MainSteps)
  /\ LET o == MainSteps[Len(main.started) + 1]
     IN /\ op' = o
        /\ hist' = [NoHist EXCEPT !.op = o, !.db0 = db]
        /\ main' = [main EXCEPT !.started = Append(@, o),
                                !.done = Returned(@, result)]
  /\ pc' = "connect"
  /\ exc' = "none"
  /\ result' = "none"
  /\ stock' = 0
  /\ ncalls' = 0
  /\ last' = NoLast
  /\ run' = [after |-> IF result = "ok" THEN hist.op ELSE "none",
             schema0 |-> schema, refused |-> {}]
  /\ sts' = NoSts
  /\ conns' = [c \in ConnIds |-> ClosedConn]
  /\ UNCHANGED <<db, nops, schema>>

\* except Error as e: ...; return 1
main_except ==
  /\ main.at = "running"
  /\ op = "none"
  /\ result = "Error"
  /\ main' = [main EXCEPT !.at = "returned", !.ret = 1]
  /\ UNCHANGED <<db, conns, op, pc, exc, result, last, hist, stock, ncalls,
                 nops, schema, run, sts>>

\* an exception that is not a driver Error is not caught: main does not
\* return
main_raise ==
  /\ main.at = "running"
  /\ op = "none"
  /\ result = "Other"
  /\ main' = [main EXCEPT !.at = "raised"]
  /\ UNCHANGED <<db, conns, op, pc, exc, result, last, hist, stock, ncalls,
                 nops, schema, run, sts>>

\* the try block ran to its end: return 0
main_return ==
  /\ main.at = "running"
  /\ op = "none"
  /\ MainGoesOn(result)
  /\ Len(main.started) = Len(MainSteps)
  /\ main' = [main EXCEPT !.at = "returned", !.ret = 0,
                          !.done = Returned(@, result)]
  /\ UNCHANGED <<db, conns, op, pc, exc, result, last, hist, stock, ncalls,
                 nops, schema, run, sts>>

Next ==
  \/ StartOp
  \/ get_connection_enter
  \/ get_connection_exit
  \/ ScopeExecute
  \/ ScopeFetch
  \/ ScopeStartTransaction
  \/ ScopeCommit
  \/ ScopeRollback
  \/ ScopeRaise
  \/ ScopeDone
  \/ te_begin
  \/ te_select
  \/ te_check
  \/ te_update
  \/ te_insert
  \/ te_commit
  \/ te_except
  \/ te_finally
  \/ isd_batch
  \/ create_table
  \/ sts_show
  \/ sts_done
  \/ get_table_row_count_enter
  \/ get_table_row_count_fetch
  \/ get_table_row_count_exit

Spec == Init /\ [][Next]_vars

\* the program as it runs: main and the functions it calls
NextMain ==
  \/ main_enter
  \/ main_call
  \/ main_except
  \/ main_raise
  \/ main_return
  \/ get_connection_enter
  \/ get_connection_exit
  \/ script_call
  \/ script_done
  \/ create_table
  \/ isd_batch
  \/ te_begin
  \/ te_select
  \/ te_check
  \/ te_update
  \/ te_insert
  \/ te_commit
  \/ te_except
  \/ te_finally
  \/ sts_show
  \/ sts_done
  \/ get_table_row_count_enter
  \/ get_table_row_count_fetch
  \/ get_table_row_count_exit

SpecMain == Init /\ [][NextMain]_vars

\* ==== properties ===========================================================
Range(s) == {s[i] : i \in 1..Len(s)}

ErrCalls ==
  {"execute_err", "executemany_err", "fetchall_err", "commit_err",
   "start_transaction_err"}

\* a driver call made during the remembered call raised Error
DriverRaised(l) == Range(l.calls) \cap ErrCalls # {}

\* the remembered call closed every cursor it opened, as its last step
CursorClosed(l) ==
  /\ l.curAfter = l.curBefore
  /\ l.calls # <<>>
  /\ l.calls[Len(l.calls)] = "cursor.close"

\* what the statement of the remembered call changes, once committed
EffectOf(l) == View(l.dbBefore, Effect(l.dbBefore, l.pendBefore, l.arg))

\* C1 (as claimed): execute_query commits after a successful statement only
\* when no explicit transaction is active on the connection; called inside a
\* transaction it performs no commit and the transaction stays open.
C1_CommitOnlyOutsideTransaction ==
  (last.fn = "execute_query" /\ last.outcome = "ok") =>
    IF last.txBefore = 0
      THEN "commit" \in Range(last.calls)
      ELSE "commit" \notin Range(last.calls) /\ last.txAfter = last.txBefore

\* C1 (amended): execute_query commits after every successful statement,
\* inside an explicit transaction too: the transaction is ended by that
\* commit and everything uncommitted on the connection becomes committed.
C1_CommitsAfterEverySuccess ==
  (last.fn = "execute_query" /\ last.outcome = "ok") =>
    /\ "commit" \in Range(last.calls)
    /\ last.txAfter = 0
    /\ last.pendAfter = NoPend
    /\ last.dbAfter = EffectOf(last)

C1_Witness ==
  last.fn = "execute_query" /\ last.outcome = "ok" /\ last.txBefore > 0

\* C2: however a scope entered through get_connection ends (body done, a
\* driver error, another exception of the body), the connection it opened
\* is closed once the scope is left; a failed connect reaches the caller as
\* an error and leaves no connection open.
C2_ScopeReleasesConnection ==
  /\ op = "none" => \A c \in ConnIds : conns[c].state = "closed"
  /\ hist.connectFailed =>
       /\ op = "none"
       /\ result = "Error"
       /\ \A c \in ConnIds : conns[c].state = "closed"

C2_Witness ==
  /\ op = "none"
  /\ hist.op = "scope"
  /\ result = "Other"
  /\ conns[1].log # <<>>
  /\ conns[1].log[1] = "connect"

\* C4: when the statement of execute_query fails, the connection is rolled
\* back, nothing is committed by the call, the cursor is closed, the call
\* raises the driver error, and no effect of the statement remains.
C4_FailedExecuteRollsBack ==
  (last.fn = "execute_query" /\ DriverRaised(last)) =>
    /\ "rollback" \in Range(last.calls)
    /\ "commit" \notin Range(last.calls)
    /\ CursorClosed(last)
    /\ last.outcome = "Error"
    /\ last.pendAfter = NoPend
    /\ last.dbAfter = last.dbBefore
    /\ (op = "scope" => pc = "exit" /\ exc = "Error")

C4_Witness ==
  /\ last.fn = "execute_query"
  /\ "commit_err" \in Range(last.calls)
  /\ last.arg = "insOrder"

\* C5: start_transaction on a connection with an active transaction raises
\* at once and leaves that transaction as it was; no connection ever has
\* more than one active transaction.
C5_AtMostOneTransaction ==
  /\ \A c \in ConnIds : conns[c].tx <= 1
  /\ (last.fn = "start_transaction" /\ last.txBefore > 0) =>
       /\ last.outcome = "Error"
       /\ last.txAfter = last.txBefore
       /\ last.pendAfter = last.pendBefore
       /\ last.dbAfter = last.dbBefore

C5_Witness == last.fn = "start_transaction" /\ last.txBefore > 0

\* the rows the remembered fetch has to return, in the form of its function
Expected(l) ==
  LET rows == ResultSet(l.arg, View(l.dbBefore, l.pendBefore))
  IN IF l.fn = "fetch_query_as_dict"
       THEN [i \in 1..Len(rows) |-> [col |-> rows[i]]]
       ELSE [i \in 1..Len(rows) |-> <<rows[i]>>]

\* C10: fetch_query and fetch_query_as_dict return the whole result set,
\* read before the cursor is closed, or raise the driver error and return
\* nothing; they never return part of the rows, never commit or roll back,
\* and close their cursor on both paths.
C10_FetchAllOrNothing ==
  (last.fn \in {"fetch_query", "fetch_query_as_dict"}) =>
    /\ Range(last.calls) \cap {"commit", "rollback", "commit_err"} = {}
    /\ last.dbAfter = last.dbBefore
    /\ last.pendAfter = last.pendBefore
    /\ last.txAfter = last.txBefore
    /\ CursorClosed(last)
    /\ IF DriverRaised(last)
         THEN last.outcome = "Error" /\ last.ret = <<>>
         ELSE /\ last.outcome = "ok"
              /\ last.ret = Expected(last)
              /\ \E i \in 1..Len(last.calls) :
                   last.calls[i] = "fetchall" /\ i < Len(last.calls)

C10_Witness ==
  /\ last.fn = "fetch_query_as_dict"
  /\ last.arg = "selOrders"
  /\ "fetchall_err" \in Range(last.calls)
  /\ Len(Expected(last)) >= 2


\* transaction_example has ended (its with block was entered and left)
TeEnded ==
  hist.op = "transaction_example" /\ op = "none" /\ ~hist.connectFailed

\* C3 (as claimed): the transaction block commits exactly when its body
\* completes normally; on any failure raised inside it (a driver error or
\* another exception, such as the stock lookup finding no row) it rolls back
\* and the same failure reaches the caller of the block.
C3_CommitOrRollbackAndReraise ==
  TeEnded =>
    /\ "commit" \in Range(conns[1].log) => hist.failure = "none"
    /\ (hist.failure = "none" /\ "rollback" \notin Range(conns[1].log))
         => "commit" \in Range(conns[1].log)
    /\ hist.failure # "none" =>
         /\ "rollback" \in Range(conns[1].log)
         /\ result = hist.failure

\* the try block of transaction_example is over
TeBlockOver ==
  hist.op = "transaction_example" /\ ~hist.connectFailed
    /\ (pc = "exit" \/ op = "none")

\* C6: when transaction_example fails after the stock decrement and before
\* the order insert is committed, then once the block is over neither write
\* is observable: stock and the order rows are what they were before.
C6_FailedBlockLeavesNoWrite ==
  (TeBlockOver /\ "decStock" \in hist.done /\ hist.failure # "none") =>
    /\ db = hist.db0
    /\ conns[1].pend = NoPend

C6_Witness ==
  /\ TeEnded
  /\ "decStock" \in hist.done
  /\ "insOrder" \in hist.failed
  /\ hist.db0.stock >= 1

\* the state of a connection in the terms of the spec
ConnState(cn) ==
  IF cn.state = "closed" THEN "Closed"
  ELSE IF cn.tx > 0 THEN "InTransaction" ELSE "Open"

Lifecycle ==
  {<<"Closed", "Open">>, <<"Open", "InTransaction">>,
   <<"InTransaction", "Open">>, <<"Open", "Closed">>}

\* C7 (as claimed): a connection only moves Closed -> Open ->
\* InTransaction -> Open -> Closed; nothing is issued on a closed connection,
\* which is only ever changed by a new connect.
C7_ConnectionLifecycle ==
  [][\A c \in ConnIds :
       /\ ConnState(conns[c]) # ConnState(conns'[c])
            => <<ConnState(conns[c]), ConnState(conns'[c])>> \in Lifecycle
       /\ (conns[c].state = "closed" /\ conns'[c] # conns[c])
            => conns'[c] = Connected]_vars

\* C8 (as claimed): whatever failure reaches the caller (connection error,
\* statement error, another exception), by then every cursor is closed, the
\* connection is closed, and no transaction was still open when the
\* connection was released: it had been rolled back.
C8_CleanupOnEveryFailure ==
  (op = "none" /\ result \in {"Error", "Other"}) =>
    /\ \A c \in ConnIds : conns[c].state = "closed" /\ conns[c].cursors = 0
    /\ hist.txAtClose = 0

\* C9 (as claimed): no failed statement is retried, and no operation
\* completes normally after one of its statements has failed.
C9_EveryFailureReported ==
  /\ ~hist.retried
  /\ (op = "none" /\ hist.failed # {}) => result # "ok"

\* C9 (amended): no failed statement is retried, and a failure inside
\* execute_query, fetch_query or fetch_query_as_dict is raised to the caller
\* and leaves a get_connection scope as an error.  (insert_sample_data and
\* transaction_example catch the errors of their own statements.)
C9_NoRetryHelpersRaise ==
  /\ ~hist.retried
  /\ (last.fn \in {"execute_query", "fetch_query", "fetch_query_as_dict"}
        /\ DriverRaised(last)) => last.outcome = "Error"
  /\ (hist.op = "scope" /\ op = "none" /\ hist.failed # {})
        => result = "Error"

C9_Witness ==
  /\ hist.op = "insert_sample_data"
  /\ op = "none"
  /\ "insProducts" \in hist.failed
  /\ "insOrders" \in hist.done
  /\ ~hist.retried

\* transaction_example has read a stock of 0 for the product
TeReadZero ==
  /\ hist.op = "transaction_example"
  /\ "selStock" \in hist.done
  /\ hist.failure # "Other"
  /\ pc # "te_select"
  /\ stock = 0

\* C11: when transaction_example reads a stock of 0 it issues neither the
\* decrement nor the order insert and rolls back; afterwards the stock is
\* still 0 and the order rows are unchanged.  transaction_example never
\* takes the stock below 0.
C11_NoStockNoWrite ==
  /\ TeReadZero =>
       /\ {"decStock", "insOrder", "commit"} \cap (hist.done \cup hist.failed) = {}
       /\ pc # "te_check" =>
            /\ "rollback" \in Range(conns[1].log)
            /\ conns[1].pend = NoPend
            /\ db = hist.db0
            /\ db.stock = 0
  /\ hist.op = "transaction_example" =>
       \/ View(db, conns[1].pend).stock >= 0 /\ db.stock >= 0
       \/ View(db, conns[1].pend).stock = hist.db0.stock /\ db = hist.db0

C11_Witness ==
  /\ TeEnded
  /\ TeReadZero
  /\ hist.db0.hasRow
  /\ "rollback" \in Range(conns[1].log)

\* create_example_tables runs right after a run of create_example_tables
\* that returned normally
CetSecondRun ==
  /\ hist.op = "create_example_tables"
  /\ run.after = "create_example_tables"

\* the driver raised Error for a reason other than the statement itself
EnvFailure == hist.connectFailed \/ hist.failed \ run.refused # {}

\* C12: when create_example_tables runs right after a run that returned
\* normally, the server refuses none of its statements, the tables and their
\* definitions stay at every moment what the first run left, and unless the
\* driver fails for another reason the second run returns normally.
C12_CreateTablesIdempotent ==
  CetSecondRun =>
    /\ run.refused = {}
    /\ schema = run.schema0
    /\ (op = "none" /\ ~EnvFailure) => result = "ok"

C12_Witness ==
  /\ CetSecondRun
  /\ op = "none"
  /\ result = "ok"
  /\ hist.done = {"products", "customers", "orders"}
  /\ \A t \in hist.done : schema[t] # "absent"

OpenConns == {c \in ConnIds : conns[c].state = "open"}

\* the tables whose count query failed in show_table_statistics
CountFailed ==
  IF hist.op = "show_table_statistics" THEN hist.failed \cap Tables ELSE {}

\* C14: at most two connections are open at any moment; while
\* get_table_row_count works, the connection of show_table_statistics and one
\* other connection are open; that other connection is closed before the next
\* table is processed; and when a count query has failed, the inner
\* connection is closed before the error leaves get_table_row_count and both
\* are closed when show_table_statistics has raised the error to its caller.
C14_TwoConnections ==
  /\ Cardinality(OpenConns) <= 2
  /\ (op = "show_table_statistics" /\ pc \in {"cnt_fetch", "cnt_exit"}) =>
       /\ sts.conn # 1
       /\ OpenConns = {1, sts.conn}
  /\ (op = "show_table_statistics" /\ pc = "sts_loop") => OpenConns = {1}
  /\ CountFailed # {} =>
       /\ pc = "exit" => OpenConns = {1} /\ exc = "Error"
       /\ op = "none" => OpenConns = {} /\ result = "Error"

C14_Witness ==
  /\ op = "none"
  /\ result = "Error"
  /\ CountFailed # {}
  /\ hist.done \cap Tables # {}
  /\ "close" \in Range(conns[1].log)
  /\ "close" \in Range(conns[2].log)

IsPrefix(s, q) == Len(s) <= Len(q) /\ s = SubSeq(q, 1, Len(s))

\* C13: main calls its steps in the order of the source, each after the one
\* before it has returned, so no step is called after a step that raised; it
\* returns 1 when a driver error has come out of a step and 0 only when all
\* the steps have returned; and when main has returned no connection is
\* open.
C13_MainStopsAtFirstError ==
  /\ IsPrefix(main.started, MainSteps)
  /\ main.done <= Len(main.started)
  /\ Len(main.started) <= main.done + 1
  /\ (main.at = "running" /\ op # "none") =>
       /\ main.started # <<>>
       /\ op = main.started[Len(main.started)]
       /\ main.done = Len(main.started) - 1
  /\ main.at = "returned" =>
       /\ op = "none"
       /\ OpenConns = {}
       /\ main.ret \in {0, 1}
       /\ main.ret = 1 =>
            /\ result = "Error"
            /\ main.done = Len(main.started) - 1
       /\ main.ret = 0 =>
            /\ result = "ok"
            /\ main.started = MainSteps
            /\ main.done = Len(MainSteps)

C13_Witness ==
  /\ main.at = "returned"
  /\ main.ret = 1
  /\ hist.op = "delete_data"
  /\ hist.failed = {"delCancelled"}
  /\ main.done = 15
  /\ "close" \in Range(conns[1].log)

====
